---- MODULE Spec2Model ----
(***************************************************************************)
(* Model of amcatable/exporters/base.py: the Exporter base class with its  *)
(* three access modes (dump to a sink, dumps to bytes, dump_iter through a *)
(* bounded queue fed by one worker of a ThreadPoolExecutor).               *)
(*                                                                         *)
(* A concrete exporter's dump() is abstracted as the sequence of write()   *)
(* arguments it produces followed by its outcome (return or raise).        *)
(***************************************************************************)
EXTENDS Integers, Sequences, FiniteSets, TLC

\* ---------------------------------------------------------------- bounds
MaxWrites == 3      \* most write() calls one dump() performs
MaxBuf    == 2      \* largest buffer_size tried
IsoWrites == 2      \* most write() calls per dump() with two iterations

\* chunks are byte strings; the values allow merges, splits and reorderings
\* to be told apart
ChunkVals == { <<>>, <<1>>, <<2>>, <<1, 2>> }

RECURSIVE SeqsUpTo(_, _)
SeqsUpTo(S, n) ==
  IF n = 0 THEN { <<>> }
  ELSE LET shorter == SeqsUpTo(S, n - 1)
       IN  shorter \cup { Append(s, x) : s \in { t \in shorter : Len(t) = n - 1 }, x \in S }

\* ---------------------------------------------------------- Python values
\* None and str values, as far as truthiness and str.format tell them apart
PyNone == [ type |-> "NoneType", val |-> "" ]
PyStr(v) == [ type |-> "str", val |-> v ]

\* bool(v): None and the empty string are falsy
Truthy(v) == v.type = "str" /\ v.val /= ""

\* "{}".format(v): None is rendered as the text None
Str(v) == IF v.type = "NoneType" THEN "None" ELSE v.val

\* ------------------------------------------------------------- exporters
\* class attributes of the base class: extension = None, content_type = None
\* Exporter.dump of the base class: writes nothing, raises NotImplementedError
BaseExporterNoRaise ==
  [ writes |-> <<>>, exc |-> "None",
    extension |-> PyNone, content_type |-> PyNone ]

BaseExporter ==
  [ writes |-> <<>>, exc |-> "NotImplementedError",
    extension |-> PyNone, content_type |-> PyNone ]

\* dump() overridden by a subclass: some writes, then return or raise;
\* a subclass sets its extension and content type
SubclassExporters ==
  [ writes : SeqsUpTo(ChunkVals, MaxWrites), exc : { "None", "IOError" },
    extension : { PyStr("csv") }, content_type : { PyStr("text/csv") } ]

Exporters == { BaseExporter } \cup SubclassExporters

\* buffer_size <= 0 makes Queue(maxsize=buffer_size) unbounded
BufferSizes == { -1, 0 } \cup (1 .. MaxBuf)

\* dump_iter(self, table, buffer_size=20, ...)
DefaultBufferSize == 20

\* filename arguments of dump_http_reponse
Filenames == { PyNone, PyStr(""), PyStr("report") }

\* 'attachment; filename="{}.{}"'.format(filename, self.extension),
\* as the sequence of the pieces of the resulting text
Format(fn, ext) ==
  << "attachment; filename=\"", Str(fn), ".", Str(ext), "\"" >>

\* the Content-Disposition header dump_http_reponse sets: <<>> if none
ContentDispositionNotNone(fn, ext) ==
  IF fn.type /= "NoneType" THEN << Format(fn, ext) >> ELSE <<>>

ContentDisposition(fn, ext) ==
  IF Truthy(fn) THEN << Format(fn, ext) >> ELSE <<>>

\* ------------------------------------------------------------------ sinks
\* io.BytesIO.write: append the bytes to the buffer
BytesIOWrite(buf, b) == buf \o b

\* a caller-supplied sink that records each write() argument
SinkWrite(log, b) == Append(log, b)

\* queue.Queue.put blocks while maxsize > 0 and qsize() >= maxsize
FullOffByOne(q, maxsize) == maxsize > 0 /\ Len(q) > maxsize

Full(q, maxsize) == maxsize > 0 /\ Len(q) >= maxsize

\* dump() run to completion against BytesIO: the buffer after all writes
RECURSIVE DumpToBytesIO(_, _, _)
DumpToBytesIO(writes, i, buf) ==
  IF i > Len(writes) THEN buf
  ELSE DumpToBytesIO(writes, i + 1, BytesIOWrite(buf, writes[i]))

\* dump() run to completion against a recording sink
RECURSIVE DumpToSink(_, _, _)
DumpToSink(writes, i, log) ==
  IF i > Len(writes) THEN log
  ELSE DumpToSink(writes, i + 1, SinkWrite(log, writes[i]))

\* in-order concatenation of a sequence of chunks
RECURSIVE Concat(_)
Concat(chunks) ==
  IF chunks = <<>> THEN <<>> ELSE Head(chunks) \o Concat(Tail(chunks))

\* future.result() once the future is finished: the stored exception is
\* raised, otherwise the result is returned
FutureResultSwallow(exc) == "None"

FutureResult(exc) == exc

Threads == { "caller", "worker" }
Sinks   == { "file", "BytesIO", "QueueWriter" }

VARIABLES
  exporter,      \* the exporter (its dump behaviour)
  buffer_size,   \* dump_iter's buffer_size argument
  dumpCalls,     \* [thread, sink] -> number of dump() invocations
  sink,          \* direct dump(): write() arguments received by the sink
  dumpOutcome,   \* direct dump(): "uncalled", "returned" or the exception
  dumpsReturn,   \* dumps(): <<>> or <<bytes returned>>
  dumpsOutcome,  \* dumps(): "uncalled", "returned" or the exception
  gPc,           \* dump_iter generator: position of the consumer
  queue,         \* the Queue between worker and consumer
  future,        \* state of the submitted future
  futureExc,     \* exception stored in the future ("None" if none)
  wPc,           \* worker: "idle", "dump", "ended", "done"
  wI,            \* worker: index of dump()'s next write
  wExc,          \* worker: exception dump() raised, in flight
  written,       \* arguments of the write() calls completed by the worker
  yielded,       \* chunks yielded to the caller
  raised,        \* exception raised from the iterator ("None" if none)
  shutdown,      \* the executor has been shut down
  filename,      \* dump_http_reponse's filename argument
  response,      \* <<>> or <<the response dump_http_reponse returned>>
  iters          \* concurrent dump_iter() calls: iteration -> its locals

vars == << exporter, buffer_size, dumpCalls, sink, dumpOutcome, dumpsReturn,
           dumpsOutcome, gPc, queue, future, futureExc, wPc, wI, wExc,
           written, yielded, raised, shutdown, filename, response, iters >>

directVars == << sink, dumpOutcome >>
dumpsVars  == << dumpsReturn, dumpsOutcome >>
iterVars   == << gPc, queue, future, futureExc, wPc, wI, wExc, written,
                 yielded, raised, shutdown >>

httpVars   == << filename, response >>

\* two dump_iter() iterations running at once on the same exporter, each on
\* its own table
IterIds == { 1, 2 }

\* the locals of one dump_iter() call and of its worker
IterInit ==
  [ pc |-> "uncalled", queue |-> <<>>, future |-> "none",
    futureExc |-> "None", wPc |-> "idle", wI |-> 1, wExc |-> "None",
    written |-> <<>>, yielded |-> <<>>, raised |-> "None",
    shutdown |-> FALSE ]

\* the k-th chunk dump() writes for the table of iteration i
TableChunk(i, k) == [ table |-> i, bytes |-> exporter.writes[k] ]

Called(t, s) == [ dumpCalls EXCEPT ![<<t, s>>] = @ + 1 ]

Init ==
  /\ exporter \in Exporters
  /\ buffer_size \in BufferSizes
  /\ dumpCalls = [ c \in Threads \X Sinks |-> 0 ]
  /\ sink = <<>>
  /\ dumpOutcome = "uncalled"
  /\ dumpsReturn = <<>>
  /\ dumpsOutcome = "uncalled"
  /\ gPc = "uncalled"
  /\ queue = <<>>
  /\ future = "none"
  /\ futureExc = "None"
  /\ wPc = "idle"
  /\ wI = 1
  /\ wExc = "None"
  /\ written = <<>>
  /\ yielded = <<>>
  /\ raised = "None"
  /\ shutdown = FALSE
  /\ filename = PyNone
  /\ response = <<>>
  /\ iters = [ i \in IterIds |-> IterInit ]

\* ------------------------------------------------- dump(table, fo) direct
\* the caller invokes dump() with its own sink
Dump ==
  /\ dumpOutcome = "uncalled"
  /\ dumpCalls' = Called("caller", "file")
  /\ sink' = DumpToSink(exporter.writes, 1, <<>>)
  /\ dumpOutcome' = IF exporter.exc = "None" THEN "returned" ELSE exporter.exc
  /\ UNCHANGED << exporter, buffer_size, httpVars, iters, dumpsVars, iterVars >>

\* ------------------------------------------------------------ dumps(table)
Dumps ==
  /\ dumpsOutcome = "uncalled"
  /\ dumpCalls' = Called("caller", "BytesIO")
  /\ IF exporter.exc = "None"
       THEN /\ dumpsReturn' = << DumpToBytesIO(exporter.writes, 1, <<>>) >>
            /\ dumpsOutcome' = "returned"
       ELSE /\ dumpsReturn' = <<>>
            /\ dumpsOutcome' = exporter.exc
  /\ UNCHANGED << exporter, buffer_size, httpVars, iters, directVars, iterVars >>

\* ------------------------------------------------------ dump_iter(table)
\* Calling dump_iter() only creates the generator: no line of the body runs
DumpIterCallEager ==
  /\ gPc = "uncalled"
  /\ gPc' = "created"
  /\ future' = "PENDING"
  /\ UNCHANGED << exporter, buffer_size, httpVars, iters, dumpCalls, directVars, dumpsVars,
                  queue, futureExc, wPc, wI, wExc, written, yielded, raised,
                  shutdown >>

DumpIterCall ==
  /\ gPc = "uncalled"
  /\ gPc' = "created"
  /\ UNCHANGED << exporter, buffer_size, httpVars, iters, dumpCalls, directVars, dumpsVars,
                  queue, future, futureExc, wPc, wI, wExc, written, yielded,
                  raised, shutdown >>

\* first next(): Queue(maxsize=buffer_size), the executor, executor.submit
Submit ==
  /\ gPc = "created"
  /\ queue' = <<>>
  /\ future' = "PENDING"
  /\ gPc' = "running?"
  /\ UNCHANGED << exporter, buffer_size, httpVars, iters, dumpCalls, directVars, dumpsVars,
                  futureExc, wPc, wI, wExc, written, yielded, raised,
                  shutdown >>

\* while future.running() ...: true only in state RUNNING
CondRunning ==
  /\ gPc = "running?"
  /\ gPc' = IF future = "RUNNING" THEN "get" ELSE "empty?"
  /\ UNCHANGED << exporter, buffer_size, httpVars, iters, dumpCalls, directVars, dumpsVars,
                  queue, future, futureExc, wPc, wI, wExc, written, yielded,
                  raised, shutdown >>

\* ... or not queue.empty(): the loop is left when both are false
CondEmpty ==
  /\ gPc = "empty?"
  /\ gPc' = IF queue /= <<>> THEN "get" ELSE "result"
  /\ UNCHANGED << exporter, buffer_size, httpVars, iters, dumpCalls, directVars, dumpsVars,
                  queue, future, futureExc, wPc, wI, wExc, written, yielded,
                  raised, shutdown >>

\* yield queue.get(timeout=0.2): an item is there, the generator yields it
GetYield ==
  /\ gPc = "get"
  /\ queue /= <<>>
  /\ yielded' = Append(yielded, Head(queue))
  /\ queue' = Tail(queue)
  /\ gPc' = "yield"
  /\ UNCHANGED << exporter, buffer_size, httpVars, iters, dumpCalls, directVars, dumpsVars,
                  future, futureExc, wPc, wI, wExc, written, raised,
                  shutdown >>

\* queue.get(timeout=0.2) raises Empty: continue with the loop condition
GetEmptyNoTimeout ==
  /\ gPc = "get"
  /\ queue = <<>>
  /\ gPc' = "get"
  /\ UNCHANGED << exporter, buffer_size, httpVars, iters, dumpCalls, directVars, dumpsVars,
                  queue, future, futureExc, wPc, wI, wExc, written, yielded,
                  raised, shutdown >>

GetEmpty ==
  /\ gPc = "get"
  /\ queue = <<>>
  /\ gPc' = "running?"
  /\ UNCHANGED << exporter, buffer_size, httpVars, iters, dumpCalls, directVars, dumpsVars,
                  queue, future, futureExc, wPc, wI, wExc, written, yielded,
                  raised, shutdown >>

\* the caller requests the next item: the generator resumes after the yield
CallerNext ==
  /\ gPc = "yield"
  /\ gPc' = "running?"
  /\ UNCHANGED << exporter, buffer_size, httpVars, iters, dumpCalls, directVars, dumpsVars,
                  queue, future, futureExc, wPc, wI, wExc, written, yielded,
                  raised, shutdown >>

\* future.result(): blocks until the future is finished
Result ==
  /\ gPc = "result"
  /\ future = "FINISHED"
  /\ gPc' = IF FutureResult(futureExc) = "None" THEN "exit" ELSE "exit_exc"
  /\ raised' = FutureResult(futureExc)
  /\ UNCHANGED << exporter, buffer_size, httpVars, iters, dumpCalls, directVars, dumpsVars,
                  queue, future, futureExc, wPc, wI, wExc, written, yielded,
                  shutdown >>

\* leaving the with block: executor.shutdown(wait=True) joins the worker,
\* then the generator ends (StopIteration) or the exception propagates
ExecutorExit ==
  /\ gPc \in { "exit", "exit_exc" }
  /\ wPc \in { "idle", "done" } /\ future /= "PENDING"
  /\ shutdown' = TRUE
  /\ gPc' = IF gPc = "exit" THEN "done" ELSE "raised"
  /\ UNCHANGED << exporter, buffer_size, httpVars, iters, dumpCalls, directVars, dumpsVars,
                  queue, future, futureExc, wPc, wI, wExc, written, yielded,
                  raised >>

\* generator.close() before the first next(): the body never runs
CloseUnstarted ==
  /\ gPc = "created"
  /\ gPc' = "closed"
  /\ UNCHANGED << exporter, buffer_size, httpVars, iters, dumpCalls, directVars, dumpsVars,
                  queue, future, futureExc, wPc, wI, wExc, written, yielded,
                  raised, shutdown >>

\* generator.close() while suspended at the yield: GeneratorExit is raised
\* there and the with block starts executor.shutdown(wait=True)
CloseAtYield ==
  /\ gPc = "yield"
  /\ gPc' = "closing"
  /\ UNCHANGED << exporter, buffer_size, httpVars, iters, dumpCalls, directVars, dumpsVars,
                  queue, future, futureExc, wPc, wI, wExc, written, yielded,
                  raised, shutdown >>

\* executor.shutdown(wait=True) returns once the worker thread has ended;
\* close() then returns
CloseExitNoWait ==
  /\ gPc = "closing"
  /\ shutdown' = TRUE
  /\ gPc' = "closed"
  /\ UNCHANGED << exporter, buffer_size, httpVars, iters, dumpCalls, directVars, dumpsVars,
                  queue, future, futureExc, wPc, wI, wExc, written, yielded,
                  raised >>

CloseExit ==
  /\ gPc = "closing"
  /\ wPc \in { "idle", "done" } /\ future /= "PENDING"
  /\ shutdown' = TRUE
  /\ gPc' = "closed"
  /\ UNCHANGED << exporter, buffer_size, httpVars, iters, dumpCalls, directVars, dumpsVars,
                  queue, future, futureExc, wPc, wI, wExc, written, yielded,
                  raised >>

\* ------------------------------------------------------------- the worker
\* the pool's thread takes the work item: set_running_or_notify_cancel(),
\* then _dump_iter calls dump(table, QueueWriter(queue))
WorkerStartAgain ==
  /\ future \in { "PENDING", "FINISHED" }
  /\ future' = "RUNNING"
  /\ wPc' = "dump"
  /\ wI' = 1
  /\ dumpCalls' = Called("worker", "QueueWriter")
  /\ UNCHANGED << exporter, buffer_size, httpVars, iters, directVars, dumpsVars, gPc, queue,
                  futureExc, wExc, written, yielded, raised, shutdown >>

WorkerStart ==
  /\ future = "PENDING"
  /\ wPc = "idle"
  /\ future' = "RUNNING"
  /\ wPc' = "dump"
  /\ dumpCalls' = Called("worker", "QueueWriter")
  /\ UNCHANGED << exporter, buffer_size, httpVars, iters, directVars, dumpsVars, gPc, queue,
                  futureExc, wI, wExc, written, yielded, raised, shutdown >>

\* QueueWriter.write(b): queue.put(b), blocking while the queue is full
WorkerWrite ==
  /\ wPc = "dump"
  /\ wI <= Len(exporter.writes)
  /\ ~Full(queue, buffer_size)
  /\ queue' = Append(queue, exporter.writes[wI])
  /\ written' = Append(written, exporter.writes[wI])
  /\ wI' = wI + 1
  /\ UNCHANGED << exporter, buffer_size, httpVars, iters, dumpCalls, directVars, dumpsVars,
                  gPc, future, futureExc, wPc, wExc, yielded, raised,
                  shutdown >>

\* dump() returns or raises after its last write
WorkerDumpEnd ==
  /\ wPc = "dump"
  /\ wI > Len(exporter.writes)
  /\ wPc' = "ended"
  /\ wExc' = exporter.exc
  /\ UNCHANGED << exporter, buffer_size, httpVars, iters, dumpCalls, directVars, dumpsVars,
                  gPc, queue, future, futureExc, wI, written, yielded, raised,
                  shutdown >>

\* the work item stores the outcome: set_result / set_exception
WorkerSetFuture ==
  /\ wPc = "ended"
  /\ future' = "FINISHED"
  /\ futureExc' = wExc
  /\ wPc' = "done"
  /\ UNCHANGED << exporter, buffer_size, httpVars, iters, dumpCalls, directVars, dumpsVars,
                  gPc, queue, wI, wExc, written, yielded, raised, shutdown >>

Consumer ==
  \/ DumpIterCall
  \/ Submit
  \/ CondRunning
  \/ CondEmpty
  \/ GetYield
  \/ GetEmpty
  \/ CallerNext
  \/ Result
  \/ ExecutorExit

Worker ==
  \/ WorkerStart
  \/ WorkerWrite
  \/ WorkerDumpEnd
  \/ WorkerSetFuture

Next ==
  \/ Dump
  \/ Dumps
  \/ Consumer
  \/ Worker

Spec == Init /\ [][Next]_vars

\* both threads are scheduled fairly and the caller keeps requesting items
FairSpec == Spec /\ WF_vars(Consumer) /\ WF_vars(Worker)

\* ------------------------------------------------------ dump_http_reponse
\* content = self.dump_iter(table, ...) with the default buffer_size only
\* creates the generator; the response gets it as its streaming content,
\* self.content_type as content type, and the header if filename is truthy
DumpHttpResponse ==
  /\ gPc = "uncalled"
  /\ response = <<>>
  /\ \E fn \in Filenames :
       /\ filename' = fn
       /\ response' =
            << [ streaming_content |-> "dump_iter",
                 content_type |-> exporter.content_type,
                 content_disposition |->
                   ContentDisposition(fn, exporter.extension) ] >>
  /\ buffer_size' = DefaultBufferSize
  /\ gPc' = "created"
  /\ UNCHANGED << exporter, iters, dumpCalls, directVars, dumpsVars, queue,
                  future, futureExc, wPc, wI, wExc, written, yielded, raised,
                  shutdown >>

NextHttp ==
  \/ Next
  \/ DumpHttpResponse

HttpSpec == Init /\ [][NextHttp]_vars

\* the caller may also abandon the iterator
Close ==
  \/ CloseUnstarted
  \/ CloseAtYield
  \/ CloseExit

NextClose ==
  \/ Next
  \/ Close

CloseSpec == Init /\ [][NextClose]_vars

\* ------------------------------------- two concurrent dump_iter() calls
\* the steps of dump_iter and of its worker, on the locals of iteration i
IsoFrame ==
  UNCHANGED << exporter, buffer_size, httpVars, dumpCalls, directVars,
               dumpsVars, iterVars >>

IsoDumpIterCall(i) ==
  /\ iters[i].pc = "uncalled"
  /\ iters' = [ iters EXCEPT ![i].pc = "created" ]
  /\ IsoFrame

\* queue = Queue(maxsize=buffer_size), a new executor, executor.submit
IsoSubmit(i) ==
  /\ iters[i].pc = "created"
  /\ iters' = [ iters EXCEPT ![i].queue = <<>>, ![i].future = "PENDING",
                              ![i].pc = "running?" ]
  /\ IsoFrame

IsoCondRunning(i) ==
  /\ iters[i].pc = "running?"
  /\ iters' = [ iters EXCEPT ![i].pc =
                  IF iters[i].future = "RUNNING" THEN "get" ELSE "empty?" ]
  /\ IsoFrame

IsoCondEmpty(i) ==
  /\ iters[i].pc = "empty?"
  /\ iters' = [ iters EXCEPT ![i].pc =
                  IF iters[i].queue /= <<>> THEN "get" ELSE "result" ]
  /\ IsoFrame

IsoGetYield(i) ==
  /\ iters[i].pc = "get"
  /\ iters[i].queue /= <<>>
  /\ iters' = [ iters EXCEPT
                  ![i].yielded = Append(@, Head(iters[i].queue)),
                  ![i].queue = Tail(@),
                  ![i].pc = "yield" ]
  /\ IsoFrame

IsoGetEmpty(i) ==
  /\ iters[i].pc = "get"
  /\ iters[i].queue = <<>>
  /\ iters' = [ iters EXCEPT ![i].pc = "running?" ]
  /\ IsoFrame

IsoCallerNext(i) ==
  /\ iters[i].pc = "yield"
  /\ iters' = [ iters EXCEPT ![i].pc = "running?" ]
  /\ IsoFrame

IsoResult(i) ==
  /\ iters[i].pc = "result"
  /\ iters[i].future = "FINISHED"
  /\ iters' = [ iters EXCEPT
                  ![i].pc = IF FutureResult(iters[i].futureExc) = "None"
                              THEN "exit" ELSE "exit_exc",
                  ![i].raised = FutureResult(iters[i].futureExc) ]
  /\ IsoFrame

IsoExecutorExit(i) ==
  /\ iters[i].pc \in { "exit", "exit_exc" }
  /\ iters[i].wPc \in { "idle", "done" } /\ iters[i].future /= "PENDING"
  /\ iters' = [ iters EXCEPT
                  ![i].shutdown = TRUE,
                  ![i].pc = IF iters[i].pc = "exit" THEN "done" ELSE "raised" ]
  /\ IsoFrame

IsoWorkerStart(i) ==
  /\ iters[i].future = "PENDING"
  /\ iters[i].wPc = "idle"
  /\ iters' = [ iters EXCEPT ![i].future = "RUNNING", ![i].wPc = "dump" ]
  /\ IsoFrame

\* QueueWriter(queue).write(b): the queue is the one created by this call
IsoWorkerWriteShared(i) ==
  /\ iters[i].wPc = "dump"
  /\ iters[i].wI <= Len(exporter.writes)
  /\ ~Full(iters[1].queue, buffer_size)
  /\ iters' = [ iters EXCEPT
                  ![1].queue = Append(@, TableChunk(i, iters[i].wI)),
                  ![i].written = Append(@, TableChunk(i, iters[i].wI)),
                  ![i].wI = @ + 1 ]
  /\ IsoFrame

IsoWorkerWrite(i) ==
  /\ iters[i].wPc = "dump"
  /\ iters[i].wI <= Len(exporter.writes)
  /\ ~Full(iters[i].queue, buffer_size)
  /\ iters' = [ iters EXCEPT
                  ![i].queue = Append(@, TableChunk(i, iters[i].wI)),
                  ![i].written = Append(@, TableChunk(i, iters[i].wI)),
                  ![i].wI = @ + 1 ]
  /\ IsoFrame

IsoWorkerDumpEnd(i) ==
  /\ iters[i].wPc = "dump"
  /\ iters[i].wI > Len(exporter.writes)
  /\ iters' = [ iters EXCEPT ![i].wPc = "ended", ![i].wExc = exporter.exc ]
  /\ IsoFrame

IsoWorkerSetFuture(i) ==
  /\ iters[i].wPc = "ended"
  /\ iters' = [ iters EXCEPT ![i].future = "FINISHED",
                              ![i].futureExc = iters[i].wExc,
                              ![i].wPc = "done" ]
  /\ IsoFrame

IsoConsumer(i) ==
  \/ IsoDumpIterCall(i)
  \/ IsoSubmit(i)
  \/ IsoCondRunning(i)
  \/ IsoCondEmpty(i)
  \/ IsoGetYield(i)
  \/ IsoGetEmpty(i)
  \/ IsoCallerNext(i)
  \/ IsoResult(i)
  \/ IsoExecutorExit(i)

IsoWorker(i) ==
  \/ IsoWorkerStart(i)
  \/ IsoWorkerWrite(i)
  \/ IsoWorkerDumpEnd(i)
  \/ IsoWorkerSetFuture(i)

IsoExporters ==
  { e \in Exporters :
      /\ Len(e.writes) <= IsoWrites
      /\ \A k \in 1 .. Len(e.writes) : e.writes[k] \in { <<1>>, <<1, 2>> } }

IsoInit ==
  /\ Init
  /\ exporter \in IsoExporters
  /\ buffer_size \in 1 .. MaxBuf

IsoNext ==
  \/ Dumps
  \/ \E i \in IterIds : IsoConsumer(i)
  \/ \E i \in IterIds : IsoWorker(i)

IsoSpec == IsoInit /\ [][IsoNext]_vars

TypeOK ==
  /\ exporter \in Exporters
  /\ buffer_size \in BufferSizes \cup { DefaultBufferSize }
  /\ filename \in Filenames
  /\ gPc \in { "uncalled", "created", "running?", "empty?", "get", "yield",
               "result", "exit", "exit_exc", "done", "raised", "closing",
               "closed" }
  /\ future \in { "none", "PENDING", "RUNNING", "FINISHED" }
  /\ wPc \in { "idle", "dump", "ended", "done" }
  /\ wI \in 1 .. MaxWrites + 1
  /\ shutdown \in BOOLEAN

\* ---------------------------------------------------------------- claims
WorkerBlocked ==
  wPc = "dump" /\ wI <= Len(exporter.writes) /\ Full(queue, buffer_size)

QueueDumpCalls(t) == dumpCalls[<<t, "QueueWriter">>]

\* C1: when dump() returned normally and the iterator is exhausted, the
\* chunks yielded are exactly the write() arguments, in order, once each
C1_YieldedEqualsWritten ==
  gPc = "done" => (yielded = written /\ written = exporter.writes)

\* C2: after a failed dump() the iterator never ends normally, and a caller
\* that keeps consuming eventually gets the worker's exception
C2_ExceptionReraised ==
  /\ [](gPc = "done" => wExc = "None")
  /\ [](gPc = "raised" => raised = wExc)
  /\ (wPc \in { "ended", "done" } /\ wExc /= "None")
       ~> (gPc = "raised" /\ raised = wExc)

C2_Witness ==
  gPc = "raised" /\ raised = "IOError" /\ wExc = "IOError" /\ Len(written) >= 1

\* C3: the worker's exception is raised only after every chunk written
\* before the failure has been yielded, in order, and the queue is empty
C3_ExceptionDeferred ==
  raised /= "None" => (yielded = written /\ queue = <<>>)

C5_NoDeadlock ==
  ~(gPc = "result" /\ WorkerBlocked)

\* C6: dumps() returns the concatenation of dump()'s write() arguments,
\* which is also the concatenation of the chunks of an exhausted dump_iter()
C6_ModesAgree ==
  (buffer_size >= 1 /\ gPc = "done" /\ dumpsOutcome = "returned"
     /\ dumpOutcome = "returned")
    => /\ dumpsReturn = << Concat(sink) >>
       /\ dumpsReturn = << Concat(yielded) >>

\* C7: per iteration dump() gets a queue-backed sink exactly once, from the
\* worker; the consumer thread never calls dump() with the queue
C7_OneWorkerOneDump ==
  /\ QueueDumpCalls("caller") = 0
  /\ QueueDumpCalls("worker") <= 1
  /\ dumpCalls[<<"worker", "file">>] = 0
  /\ dumpCalls[<<"worker", "BytesIO">>] = 0
  /\ (wPc /= "idle" <=> QueueDumpCalls("worker") = 1)
  /\ (gPc \in { "done", "raised" } => QueueDumpCalls("worker") = 1)

C7_Witness ==
  /\ gPc = "done"
  /\ QueueDumpCalls("worker") = 1
  /\ dumpCalls[<<"caller", "BytesIO">>] = 1
  /\ Len(yielded) = MaxWrites

\* C8: with the base class's dump() every mode fails with
\* NotImplementedError and no bytes: nothing written, returned or yielded
C8_BaseNotImplemented ==
  exporter = BaseExporter =>
    /\ dumpOutcome \in { "uncalled", "NotImplementedError" }
    /\ sink = <<>>
    /\ dumpsOutcome \in { "uncalled", "NotImplementedError" }
    /\ dumpsReturn = <<>>
    /\ yielded = <<>> /\ written = <<>>
    /\ gPc \notin { "yield", "exit", "done" }
    /\ (gPc \in { "exit_exc", "raised" } => raised = "NotImplementedError")

C8_Witness ==
  /\ exporter = BaseExporter
  /\ dumpOutcome = "NotImplementedError"
  /\ dumpsOutcome = "NotImplementedError"
  /\ gPc = "raised" /\ raised = "NotImplementedError"

\* C9: nothing is submitted and no dump() runs before the first item is
\* requested; chunks are yielded while dump() is still running
C9_LazyStart ==
  (future /= "none" \/ wPc /= "idle" \/ QueueDumpCalls("worker") > 0)
    => gPc \notin { "uncalled", "created" }

C9_Witness ==
  gPc = "yield" /\ Len(yielded) >= 1 /\ future = "RUNNING" /\ wPc = "dump"
    /\ wI <= Len(exporter.writes)

\* C10: once the polling loop is left the future is finished and the queue
\* is empty
C10_ExitSound ==
  gPc = "result" => (future = "FINISHED" /\ queue = <<>>)

\* C11: when the worker has finished while the consumer waits in get() on
\* an empty queue, the get times out and the iterator ends or raises
C11_GetTimesOut ==
  (gPc = "get" /\ queue = <<>> /\ wPc \in { "ended", "done" })
    ~> (gPc \in { "done", "raised" })

C11_Witness ==
  gPc = "get" /\ queue = <<>> /\ wPc = "done" /\ future = "FINISHED"
    /\ Len(yielded) >= 1

\* C12: after an early close() the worker is never blocked on a full queue
\* while the executor's shutdown waits for it
C12_CloseTerminates ==
  ~(gPc = "closing" /\ WorkerBlocked)

\* C13: once the iterator has ended, raised or been closed, the executor is
\* shut down and the worker no longer runs dump()
C13_NoWorkerOutlives ==
  gPc \in { "done", "raised", "closed" } =>
    \/ future = "none" /\ wPc = "idle"
    \/ shutdown /\ wPc = "done" /\ future = "FINISHED"

C13_Witness ==
  gPc = "closed" /\ shutdown /\ wPc = "done" /\ queue /= <<>>

\* C15: with buffer_size <= 0 the queue is never full, so write() never
\* blocks, and an exhausted iterator has yielded every written chunk in order
C15_UnboundedQueue ==
  buffer_size <= 0 =>
    /\ ~Full(queue, buffer_size)
    /\ ~WorkerBlocked
    /\ (gPc = "done" => yielded = written)

\* C16: the response streams the dump_iter() generator, carries the
\* exporter's content_type, has a Content-Disposition header exactly when
\* filename is truthy, reading attachment; filename="<filename>.<extension>",
\* and building it neither submits a worker nor runs dump()
C16_HttpResponse ==
  /\ [](response /= <<>> =>
          LET r == response[1] IN
            /\ r.streaming_content = "dump_iter"
            /\ gPc /= "uncalled"
            /\ r.content_type = exporter.content_type
            /\ (r.content_disposition /= <<>>
                  <=> (filename /= PyNone /\ filename.val /= ""))
            /\ (r.content_disposition /= <<>> =>
                  r.content_disposition[1] =
                    << "attachment; filename=\"", filename.val, ".",
                       IF exporter.extension = PyNone
                         THEN "None" ELSE exporter.extension.val,
                       "\"" >>))
  /\ [][(response = <<>> /\ response' /= <<>>) =>
          /\ gPc' = "created"
          /\ future' = "none" /\ wPc' = "idle"
          /\ dumpCalls' = dumpCalls
          /\ yielded' = <<>>]_vars

C16_Witness ==
  /\ response /= <<>>
  /\ filename = PyStr("report")
  /\ response[1].content_disposition =
       << << "attachment; filename=\"", "report", ".", "csv", "\"" >> >>
  /\ response[1].content_type = PyStr("text/csv")
  /\ gPc = "done" /\ Len(yielded) >= 1

\* C14: with two iterations running at once, every chunk in an iteration's
\* queue or yielded by it was written for that iteration's table, each
\* queue carries exactly its own worker's writes, and no step changes the
\* exporter (its extension and content_type included)
C14_Isolated ==
  /\ [](\A i \in IterIds :
          /\ \A k \in 1 .. Len(iters[i].yielded) :
               iters[i].yielded[k].table = i
          /\ \A k \in 1 .. Len(iters[i].queue) :
               iters[i].queue[k].table = i
          /\ iters[i].yielded \o iters[i].queue = iters[i].written
          /\ \A k \in 1 .. Len(iters[i].written) :
               iters[i].written[k] = TableChunk(i, k))
  /\ [][/\ exporter' = exporter
        /\ exporter'.extension = exporter.extension
        /\ exporter'.content_type = exporter.content_type]_vars

C14_Witness ==
  /\ \A i \in IterIds :
       /\ iters[i].wPc = "dump"
       /\ Len(iters[i].yielded) >= 1
       /\ iters[i].queue /= <<>>
  /\ dumpsOutcome /= "uncalled"

====
